---- MODULE Spec2Model ----
(***************************************************************************)
(* The repayment calculation engine of the Telebirr credit calculator      *)
(* (CreditService, backend) as a state machine.  One calculate call is in  *)
(* flight at a time; its steps are the blocks of CreditService.calculate   *)
(* and of the range / tiered calculation paths it dispatches to.           *)
(*                                                                         *)
(* JavaScript numbers are modelled exactly: a finite number is a count of  *)
(* cents plus a proper fraction of a cent, so that sub-cent amounts, the   *)
(* half-cent cases of roundTwoDecimals and the division of the penalty     *)
(* over the overdue days are all represented without loss.  Binary         *)
(* floating-point error (which the Number.EPSILON bias of roundTwoDecimals *)
(* is there to absorb) is not modelled.  Dates are local calendar days;    *)
(* time of day and time zones are not modelled.                            *)
(***************************************************************************)
EXTENDS Integers, Sequences, FiniteSets, TLC

VARIABLES
    credits,        \* CreditService.credits: the catalog
    pc,             \* position of the calculate call in flight
    input,          \* the request (CreditCalculationInput)
    creditConfig,   \* calculate: the matched product
    loanAmount,     \* calculate: Number(input.loanAmount)
    parsedStart,    \* calculate: parseISO(input.startDate)
    parsedEnd,      \* calculate: parseISO(input.endDate)
    loanPeriodDays, \* calculate: inclusive day count
    tier,           \* calculate: matchedRange.tier (tiered path)
    fees,           \* the locals of calculateForRangeCredit / calculateForTieredCredit
    penaltyFee,     \* result of computePenaltyFee
    build,          \* the locals of buildSchedule
    schedule,       \* result of buildSchedule
    result,         \* the CreditCalculationResult returned
    error,          \* message of the BadRequestException thrown, "" if none
    probe,          \* history: the request whose responses are compared
    firstOutcome,   \* history: the first response to the request probe
    \* the state of the App component (frontend)
    fetchedCredits, \* loadCredits: "pending" until fetchCredits settles
    uiCredits,      \* useState credits
    selectedCreditType, \* useState selectedCreditType
    uiLoanAmount,   \* useState loanAmount
    dates,          \* useState { start, end }
    uiResult,       \* useState result
    isLoading,      \* useState isLoading
    uiError,        \* useState error
    debounce,       \* the timeout of the debounce effect, with the payload it holds
    requests        \* the calculateLoan calls issued, in order, with their state

serviceVars == << credits, pc, input, creditConfig, loanAmount, parsedStart, parsedEnd,
                  loanPeriodDays, tier, fees, penaltyFee, build, schedule, result,
                  error, probe, firstOutcome >>

appVars == << fetchedCredits, uiCredits, selectedCreditType, uiLoanAmount, dates,
              uiResult, isLoading, uiError, debounce, requests >>

vars == << serviceVars, appVars >>

(***************************************************************************)
(* Bounds of the model.                                                    *)
(***************************************************************************)
\* End dates 2024-03-01 .. 2024-03-MaxMarchDay are among the requested dates.
MaxMarchDay == 2

(***************************************************************************)
(* JavaScript numbers.  A finite number is c + n/d cents with 0 <= n < d   *)
(* and n/d in lowest terms; k tells finite values from NaN and the         *)
(* infinities.                                                             *)
(***************************************************************************)
RECURSIVE GCD(_, _)
GCD(a, b) == IF b = 0 THEN a ELSE GCD(b, a % b)

Norm(c, n, d) ==
    LET g == GCD(n % d, d)
    IN  [k |-> "finite", c |-> c + (n \div d), n |-> (n % d) \div g, d |-> d \div g]

Num(c) == [k |-> "finite", c |-> c, n |-> 0, d |-> 1]
Etb(e) == Num(e * 100)
\* e birr and m thousandths of a birr
EtbMilli(e, m) == Norm(e * 100, m, 10)

NaN == [k |-> "NaN", c |-> 0, n |-> 0, d |-> 1]
PositiveInfinity == [k |-> "Infinity", c |-> 0, n |-> 0, d |-> 1]
NegativeInfinity == [k |-> "-Infinity", c |-> 0, n |-> 0, d |-> 1]

IsFinite(x) == x.k = "finite"

\* x < y, as JavaScript compares numbers (every comparison with NaN is false)
NumLt(x, y) ==
    CASE x.k = "NaN" \/ y.k = "NaN" -> FALSE
      [] x.k = "Infinity" -> FALSE
      [] y.k = "-Infinity" -> FALSE
      [] x.k = "-Infinity" -> TRUE
      [] y.k = "Infinity" -> TRUE
      [] OTHER -> x.c < y.c \/ (x.c = y.c /\ x.n * y.d < y.n * x.d)

NumGt(x, y) == NumLt(y, x)
NumLe(x, y) == x.k # "NaN" /\ y.k # "NaN" /\ ~NumLt(y, x)
NumGe(x, y) == NumLe(y, x)

\* x + y and x - y of finite numbers
NumAdd(x, y) ==
    LET g == GCD(x.d, y.d)
    IN  Norm(x.c + y.c, x.n * (y.d \div g) + y.n * (x.d \div g), x.d * (y.d \div g))

NumSub(x, y) ==
    LET g == GCD(x.d, y.d)
    IN  Norm(x.c - y.c, x.n * (y.d \div g) - y.n * (x.d \div g), x.d * (y.d \div g))

\* x * m for an integer m >= 0
NumTimes(x, m) == Norm(x.c * m, x.n * m, x.d)

\* (x * m) / q for integers m >= 0, q > 0: the quotient of x.c by q is taken
\* first so that the intermediate product stays small
NumTimesDiv(x, m, q) ==
    Norm((x.c \div q) * m, (x.c % q) * m * x.d + x.n * m, x.d * q)

\* Math.min / Math.max of two numbers, none of them NaN
MathMin(x, y) == IF NumLt(y, x) THEN y ELSE x
MathMax(x, y) == IF NumLt(x, y) THEN y ELSE x

\* roundTwoDecimals: Math.round((value + Number.EPSILON) * 100) / 100, i.e. to
\* whole cents, a half rounding up
RoundTwoDecimals(value) ==
    Num(value.c + (IF 2 * value.n >= value.d THEN 1 ELSE 0))

RECURSIVE SumBetween(_, _, _)
\* the sum of seq[lo + 1 .. hi]
SumBetween(seq, lo, hi) ==
    IF hi - lo <= 0 THEN Num(0)
    ELSE IF hi - lo = 1 THEN seq[hi]
    ELSE LET mid == (lo + hi) \div 2
         IN  NumAdd(SumBetween(seq, lo, mid), SumBetween(seq, mid, hi))

\* seq.reduce((sum, fee) => sum + fee, 0)
Reduce(seq) == SumBetween(seq, 0, Len(seq))

(***************************************************************************)
(* Dates (date-fns).  A date string is a record [y, m, d]; a Date is a     *)
(* count t of days since 1970-01-01, or invalid.                           *)
(***************************************************************************)
DateString(y, m, d) == [y |-> y, m |-> m, d |-> d]

IsLeapYear(y) == (y % 4 = 0 /\ y % 100 # 0) \/ y % 400 = 0

DaysInMonth(y, m) ==
    CASE m = 2 -> IF IsLeapYear(y) THEN 29 ELSE 28
      [] m \in {4, 6, 9, 11} -> 30
      [] OTHER -> 31

\* the day count of a calendar date
DaysFromCivil(y, m, d) ==
    LET yy  == IF m <= 2 THEN y - 1 ELSE y
        era == yy \div 400
        yoe == yy - era * 400
        mp  == IF m > 2 THEN m - 3 ELSE m + 9
        doy == (153 * mp + 2) \div 5 + d - 1
        doe == yoe * 365 + yoe \div 4 - yoe \div 100 + doy
    IN  era * 146097 + doe - 719468

\* the calendar date of a day count
CivilFromDays(t) ==
    LET z   == t + 719468
        era == z \div 146097
        doe == z - era * 146097
        yoe == (doe - doe \div 1460 + doe \div 36524 - doe \div 146096) \div 365
        doy == doe - (365 * yoe + yoe \div 4 - yoe \div 100)
        mp  == (5 * doy + 2) \div 153
        d   == doy - (153 * mp + 2) \div 5 + 1
        m   == IF mp < 10 THEN mp + 3 ELSE mp - 9
        y   == yoe + era * 400 + (IF m <= 2 THEN 1 ELSE 0)
    IN  DateString(y, m, d)

InvalidDate == [valid |-> FALSE, t |-> 0]

\* parseISO: a string that names no calendar day parses to an Invalid Date
ParseISO(s) ==
    IF s.m \in 1..12 /\ s.d \in 1..DaysInMonth(s.y, s.m)
    THEN [valid |-> TRUE, t |-> DaysFromCivil(s.y, s.m, s.d)]
    ELSE InvalidDate

IsValid(date) == date.valid

\* isAfter(date, dateToCompare): false when either is invalid
IsAfter(date, dateToCompare) ==
    date.valid /\ dateToCompare.valid /\ date.t > dateToCompare.t

\* differenceInCalendarDays(dateLeft, dateRight)
DifferenceInCalendarDays(dateLeft, dateRight) == dateLeft.t - dateRight.t

AddDays(date, amount) == [valid |-> date.valid, t |-> date.t + amount]

\* format(date, 'yyyy-MM-dd')
Format(date) == CivilFromDays(date.t)

(***************************************************************************)
(* The catalog and the constants of the service.                           *)
(***************************************************************************)
MAX_LOAN_AMOUNT == 6000000

TIERED_PAYMENT_PERIOD_MAP ==
    [t \in {"Mela Monthly", "50 Days Mela", "Endekise"} |->
        CASE t = "Mela Monthly" -> 30
          [] t = "50 Days Mela" -> 50
          [] t = "Endekise" -> 30]

\* The messages of the BadRequestExceptions of calculate
UnsupportedCreditType == "Unsupported credit type."
InvalidAmount == "Loan amount must be a positive number."
AmountTooLarge == "Loan amount cannot exceed ETB 6,000,000."
InvalidDateFormat == "Invalid date format. Use ISO 8601 (YYYY-MM-DD)."
InvalidDateRange == "Start date must be on or before the end date."
InvalidPeriod == "Loan period must be at least one day."
AmountOutOfRange == "Loan amount is outside the allowed range for this credit type."
NoMatchingTier == "Loan amount does not fall within available ranges for the selected credit type."

Tier(amount, fac, daily, penalty) ==
    [amount |-> amount, facilitationFeePercent |-> fac,
     dailyFeePercent |-> daily, penaltyPercent |-> penalty]

\* A catalog with every shape of product: range products without a cap, with a
\* cap, with a cap of 0 and without daily fee or penalty; tiered products in and
\* out of TIERED_PAYMENT_PERIOD_MAP, with tiers out of order and with a
\* duplicated tier amount.
Catalog ==
    << [type |-> "Range Plain", minLoan |-> Etb(100), maxLoan |-> Etb(10000),
        paymentPeriodDays |-> 3, facilitationFeePercent |-> 5,
        dailyFeePercent |-> 1, penaltyPercent |-> 2],
       [type |-> "Range Capped", minLoan |-> Etb(100), maxLoan |-> Etb(10000),
        paymentPeriodDays |-> 3, facilitationFeePercent |-> 5,
        dailyFeePercent |-> 1, dailyFeeMaxPercent |-> 3, penaltyPercent |-> 2],
       [type |-> "Range Zero Cap", minLoan |-> Etb(100), maxLoan |-> Etb(10000),
        paymentPeriodDays |-> 30, facilitationFeePercent |-> 5,
        dailyFeePercent |-> 1, dailyFeeMaxPercent |-> 0, penaltyPercent |-> 2],
       [type |-> "Range Free", minLoan |-> Etb(1000), maxLoan |-> Etb(7000000),
        paymentPeriodDays |-> 3, facilitationFeePercent |-> 1,
        dailyFeePercent |-> 0, penaltyPercent |-> 0],
       [type |-> "Mela Monthly",
        amounts |-> << Tier(Etb(2000), 3, 1, 1), Tier(Etb(100), 4, 1, 2) >>],
       [type |-> "50 Days Mela",
        amounts |-> << Tier(Etb(500), 4, 1, 1), Tier(Etb(500), 3, 2, 1),
                       Tier(Etb(2000), 2, 1, 1) >>],
       [type |-> "Weekly Tiered",
        amounts |-> << Tier(Etb(500), 4, 1, 1) >>] >>

CreditTypes == {Catalog[i].type : i \in 1..Len(Catalog)} \cup {"Unknown"}

\* The requested amounts: numbers (among them NaN and the infinities) and strings
NumberInput(v) == [raw |-> "number", v |-> v, s |-> ""]
StringInput(s) == [raw |-> "string", v |-> NaN, s |-> s]

LoanAmounts ==
    {NumberInput(v) : v \in
        {NaN, PositiveInfinity, NegativeInfinity, Num(0), Etb(0 - 1),
         EtbMilli(99, 999), Etb(100), EtbMilli(100, 4), EtbMilli(100, 250),
         EtbMilli(100, 500),
         EtbMilli(499, 999), Etb(500), Etb(1000), EtbMilli(1999, 999), Etb(2000),
         Etb(10000), EtbMilli(10000, 1),
         Etb(MAX_LOAN_AMOUNT), EtbMilli(MAX_LOAN_AMOUNT, 1)}}
    \cup {StringInput(s) : s \in {"", "abc", "250"}}

StartDates ==
    {DateString(2023, 12, 31), DateString(2024, 1, 27), DateString(2024, 1, 30),
     DateString(2024, 2, 28),
     DateString(2024, 3, 2), DateString(2024, 2, 30)}

EndDates ==
    {DateString(2024, 1, 30), DateString(2024, 2, 28), DateString(2024, 2, 29),
     DateString(2023, 2, 29)}
    \cup {DateString(2024, 3, d) : d \in 1..MaxMarchDay}

Requests ==
    [creditType : CreditTypes, loanAmount : LoanAmounts,
     startDate : StartDates, endDate : EndDates]

Undefined == [undefined |-> TRUE]

(***************************************************************************)
(* The helpers of CreditService.                                           *)
(***************************************************************************)
\* Number(input.loanAmount)
ToNumber(raw) ==
    IF raw.raw = "number" THEN raw.v
    ELSE CASE raw.s = "" -> Num(0)
           [] raw.s = "250" -> Etb(250)
           [] OTHER -> NaN

\* getCredits(): the catalog as the service holds it
GetCredits == credits

\* this.credits.find((credit) => credit.type === creditType): the index of the
\* first match, 0 when there is none
FindCredit(list, creditType) ==
    LET hits == {i \in 1..Len(list) : list[i].type = creditType}
    IN  IF hits = {} THEN 0 ELSE CHOOSE i \in hits : \A j \in hits : i <= j

\* !Number.isFinite(loanAmount) || loanAmount <= 0
IsNotPositive(amount) == ~IsFinite(amount) \/ NumLe(amount, Num(0))

\* a slip of ExceedsMaximum: the ceiling itself is refused
ExceedsMaximum_Inclusive(amount) == NumGe(amount, Etb(MAX_LOAN_AMOUNT))

\* loanAmount > MAX_LOAN_AMOUNT
ExceedsMaximum(amount) == NumGt(amount, Etb(MAX_LOAN_AMOUNT))

\* a slip of StartsAfterEnd: a start on the end date is refused too
StartsAfterEnd_OrEqual(start, end) ==
    start.valid /\ end.valid /\ ~IsAfter(end, start)

\* isAfter(parsedStart, parsedEnd)
StartsAfterEnd(start, end) == IsAfter(start, end)

\* a slip of PeriodDays: the end date is not counted
PeriodDays_Exclusive(start, end) == DifferenceInCalendarDays(end, start)

\* differenceInCalendarDays(parsedEnd, parsedStart) + 1
PeriodDays(start, end) == DifferenceInCalendarDays(end, start) + 1

IsRangeCredit(credit) ==
    "minLoan" \in DOMAIN credit /\ "maxLoan" \in DOMAIN credit

\* a slip of OutsideRange: the bounds themselves are refused
OutsideRange_Strict(amount, credit) ==
    NumLe(amount, credit.minLoan) \/ NumGe(amount, credit.maxLoan)

\* assertLoanWithinRange throws
OutsideRange(amount, credit) ==
    NumLt(amount, credit.minLoan) \/ NumGt(amount, credit.maxLoan)

\* insertion of t behind the tiers that do not compare greater: (a, b) => a.amount - b.amount
RECURSIVE InsertSorted(_, _)
InsertSorted(sorted, t) ==
    IF sorted = <<>> THEN <<t>>
    ELSE IF NumLt(t.amount, sorted[1].amount) THEN <<t>> \o sorted
    ELSE <<sorted[1]>> \o InsertSorted(Tail(sorted), t)

RECURSIVE SortByAmountFrom(_, _, _)
SortByAmountFrom(amounts, i, sorted) ==
    IF i > Len(amounts) THEN sorted
    ELSE SortByAmountFrom(amounts, i + 1, InsertSorted(sorted, amounts[i]))

\* [...credit.amounts].sort((a, b) => a.amount - b.amount): a stable sort of a copy
SortByAmount(amounts) == SortByAmountFrom(amounts, 1, <<>>)

BuildTierRanges(credit) ==
    LET sorted == SortByAmount(credit.amounts)
    IN  [index \in 1..Len(sorted) |->
            IF index + 1 <= Len(sorted)
            THEN [tier |-> sorted[index], min |-> sorted[index].amount,
                  hasMax |-> TRUE, maxExclusive |-> sorted[index + 1].amount]
            ELSE [tier |-> sorted[index], min |-> sorted[index].amount,
                  hasMax |-> FALSE, maxExclusive |-> Num(0)]]

\* a slip of RangeContains: the lower bound of the interval is left out
RangeContains_LowerExclusive(range, amount) ==
    NumGt(amount, range.min) /\ (~range.hasMax \/ NumLt(amount, range.maxExclusive))

\* a slip of RangeContains: the upper bound of the interval is taken in
RangeContains_UpperInclusive(range, amount) ==
    NumGe(amount, range.min) /\ (~range.hasMax \/ NumLe(amount, range.maxExclusive))

\* the predicate of find in findTierRangeForAmount
RangeContains(range, amount) ==
    NumGe(amount, range.min) /\ (~range.hasMax \/ NumLt(amount, range.maxExclusive))

\* findTierRangeForAmount: the index in the tier ranges of the first range that
\* contains the amount, 0 when there is none (undefined)
FindTierRangeForAmount(credit, amount) ==
    LET ranges == BuildTierRanges(credit)
        hits == {i \in 1..Len(ranges) : RangeContains(ranges[i], amount)}
    IN  IF hits = {} THEN 0 ELSE CHOOSE i \in hits : \A j \in hits : i <= j

\* credit.dailyFeeMaxPercent ? ... : null -- the test of a possibly absent number
Truthy(credit, fieldName) ==
    fieldName \in DOMAIN credit /\ credit[fieldName] # 0

Null == [k |-> "null", c |-> 0, n |-> 0, d |-> 1]

\* calculateForRangeCredit before its loop: the frame of its locals
RangeFrame(amount, credit) ==
    [facilitationFee |->
         RoundTwoDecimals(NumTimesDiv(amount, credit.facilitationFeePercent, 100)),
     baseDailyFee |->
         IF credit.dailyFeePercent > 0
         THEN NumTimesDiv(amount, credit.dailyFeePercent, 100) ELSE Num(0),
     dailyFeeCap |->
         IF Truthy(credit, "dailyFeeMaxPercent")
         THEN NumTimesDiv(amount, credit.dailyFeeMaxPercent, 100) ELSE Null,
     dailyFeeAccumulated |-> Num(0),
     dailyFees |-> <<>>,
     dayIndex |-> 0,
     totalDailyFee |-> Num(0),
     paymentPeriodDays |-> credit.paymentPeriodDays,
     penaltyPercent |-> credit.penaltyPercent]

\* one iteration of the loop of calculateForRangeCredit on the frame f
RangeDailyFeeBody(f) ==
    IF f.baseDailyFee = Num(0)
    THEN [f EXCEPT !.dailyFees = Append(@, Num(0)), !.dayIndex = @ + 1]
    ELSE LET remainingCap ==
                 IF f.dailyFeeCap # Null
                 THEN MathMax(NumSub(f.dailyFeeCap, f.dailyFeeAccumulated), Num(0))
                 ELSE PositiveInfinity
             dailyFeeForDay == MathMin(f.baseDailyFee, remainingCap)
         IN  [f EXCEPT !.dailyFees = Append(@, RoundTwoDecimals(dailyFeeForDay)),
                       !.dailyFeeAccumulated = NumAdd(@, dailyFeeForDay),
                       !.dayIndex = @ + 1]

\* roundTwoDecimals(baseDailyFee * loanPeriodDays) of calculateForTieredCredit
TieredTotalDailyFee(baseDailyFee, periodDays) ==
    RoundTwoDecimals(NumTimes(baseDailyFee, periodDays))

\* a slip of TieredPaymentPeriodDays: a product outside the table gets 30 days
TieredPaymentPeriodDays_Default30(credit, periodDays) ==
    IF credit.type \in DOMAIN TIERED_PAYMENT_PERIOD_MAP
    THEN TIERED_PAYMENT_PERIOD_MAP[credit.type] ELSE 30

\* TIERED_PAYMENT_PERIOD_MAP[credit.type] ?? loanPeriodDays
TieredPaymentPeriodDays(credit, periodDays) ==
    IF credit.type \in DOMAIN TIERED_PAYMENT_PERIOD_MAP
    THEN TIERED_PAYMENT_PERIOD_MAP[credit.type] ELSE periodDays

\* calculateForTieredCredit, up to totalDailyFee: the frame of its locals
TieredFrame(amount, periodDays, credit, t) ==
    LET baseDailyFee == NumTimesDiv(amount, t.dailyFeePercent, 100)
    IN  [facilitationFee |->
             RoundTwoDecimals(NumTimesDiv(amount, t.facilitationFeePercent, 100)),
         baseDailyFee |-> baseDailyFee,
         dailyFeeCap |-> Null,
         dailyFeeAccumulated |-> Num(0),
         dailyFees |-> [i \in 1..periodDays |-> RoundTwoDecimals(baseDailyFee)],
         dayIndex |-> 0,
         totalDailyFee |-> TieredTotalDailyFee(baseDailyFee, periodDays),
         paymentPeriodDays |-> TieredPaymentPeriodDays(credit, periodDays),
         penaltyPercent |-> t.penaltyPercent]

\* a slip of ComputePenaltyFee: the allowed window ends a day late
ComputePenaltyFee_LateWindow(amount, startDate, endDate, allowedPeriodDays, penaltyPercent) ==
    LET allowedEndDate == AddDays(startDate, allowedPeriodDays)
        overdueDays == DifferenceInCalendarDays(endDate, allowedEndDate)
    IN  IF ~IsAfter(endDate, allowedEndDate) THEN Num(0)
        ELSE IF overdueDays <= 0 THEN Num(0)
        ELSE RoundTwoDecimals(NumTimesDiv(amount, penaltyPercent * overdueDays, 100))

ComputePenaltyFee(amount, startDate, endDate, allowedPeriodDays, penaltyPercent) ==
    LET allowedEndDate == AddDays(startDate, allowedPeriodDays - 1)
        overdueDays == DifferenceInCalendarDays(endDate, allowedEndDate)
    IN  IF ~IsAfter(endDate, allowedEndDate) THEN Num(0)
        ELSE IF overdueDays <= 0 THEN Num(0)
        ELSE RoundTwoDecimals(NumTimesDiv(amount, penaltyPercent * overdueDays, 100))

\* a slip of ScheduleFrame: the penalty is spread over every day of the period
ScheduleFrame_SpreadOverPeriod(periodDays, allowedPeriodDays, penaltyFeeTotal) ==
    LET diff == periodDays - allowedPeriodDays
        overdueDays == IF diff > 0 THEN diff ELSE 0
    IN  [dailyFeeRunningTotal |-> Num(0),
         penaltyFeeRunningTotal |-> Num(0),
         penaltyPerDay |->
             IF overdueDays > 0 THEN NumTimesDiv(penaltyFeeTotal, 1, periodDays)
             ELSE Num(0),
         index |-> 0,
         lines |-> <<>>]

\* buildSchedule before Array.from: the frame of its locals
ScheduleFrame(periodDays, allowedPeriodDays, penaltyFeeTotal) ==
    LET diff == periodDays - allowedPeriodDays
        overdueDays == IF diff > 0 THEN diff ELSE 0
    IN  [dailyFeeRunningTotal |-> Num(0),
         penaltyFeeRunningTotal |-> Num(0),
         penaltyPerDay |->
             IF overdueDays > 0 THEN NumTimesDiv(penaltyFeeTotal, 1, overdueDays)
             ELSE Num(0),
         index |-> 0,
         lines |-> <<>>]

\* a slip of ScheduleDate: the lines are dated from the day after the start
ScheduleDate_FromOne(startDate, index) == AddDays(startDate, index + 1)

\* addDays(startDate, index) of buildSchedule, index counted from 0
ScheduleDate(startDate, index) == AddDays(startDate, index)

\* a slip of ScheduleLength: the last day of the period gets no line
ScheduleLength_OneShort(periodDays) == periodDays - 1

\* Array.from({ length: loanPeriodDays }, ...): the number of lines
ScheduleLength(periodDays) == periodDays

\* a slip of ScheduleLine: the subtotal is the charge of the day, not the
\* running amount
ScheduleLine_PerDaySubtotal(b, amount, startDate, allowedPeriodDays, dailyFees) ==
    LET currentDate == ScheduleDate(startDate, b.index)
        dailyFee == IF b.index + 1 \in DOMAIN dailyFees
                    THEN dailyFees[b.index + 1] ELSE Num(0)
        isOverdueDay == b.index >= allowedPeriodDays
        penalty == IF isOverdueDay THEN b.penaltyPerDay ELSE Num(0)
    IN  [b EXCEPT
            !.dailyFeeRunningTotal = NumAdd(@, dailyFee),
            !.penaltyFeeRunningTotal = NumAdd(@, penalty),
            !.index = @ + 1,
            !.lines = Append(@,
                [date |-> Format(currentDate),
                 outstandingPrincipal |-> RoundTwoDecimals(amount),
                 dailyFee |-> RoundTwoDecimals(dailyFee),
                 penaltyFee |-> RoundTwoDecimals(penalty),
                 subtotal |-> RoundTwoDecimals(
                     NumAdd(NumAdd(amount, dailyFee), penalty))])]

\* the callback of Array.from in buildSchedule for the index of the frame b
ScheduleLine(b, amount, startDate, allowedPeriodDays, dailyFees) ==
    LET currentDate == ScheduleDate(startDate, b.index)
        dailyFee == IF b.index + 1 \in DOMAIN dailyFees
                    THEN dailyFees[b.index + 1] ELSE Num(0)
        isOverdueDay == b.index >= allowedPeriodDays
        penalty == IF isOverdueDay THEN b.penaltyPerDay ELSE Num(0)
        dailyFeeRunningTotal == NumAdd(b.dailyFeeRunningTotal, dailyFee)
        penaltyFeeRunningTotal == NumAdd(b.penaltyFeeRunningTotal, penalty)
    IN  [b EXCEPT
            !.dailyFeeRunningTotal = dailyFeeRunningTotal,
            !.penaltyFeeRunningTotal = penaltyFeeRunningTotal,
            !.index = @ + 1,
            !.lines = Append(@,
                [date |-> Format(currentDate),
                 outstandingPrincipal |-> RoundTwoDecimals(amount),
                 dailyFee |-> RoundTwoDecimals(dailyFee),
                 penaltyFee |-> RoundTwoDecimals(penalty),
                 subtotal |-> RoundTwoDecimals(
                     NumAdd(NumAdd(amount, dailyFeeRunningTotal),
                            penaltyFeeRunningTotal))])]

\* roundTwoDecimals(loanAmount + facilitationFee + totalDailyFee + penaltyFee)
TotalRepayment(amount, facilitationFee, totalDailyFee, penalty) ==
    RoundTwoDecimals(NumAdd(NumAdd(NumAdd(amount, facilitationFee), totalDailyFee), penalty))

(***************************************************************************)
(* The App component (frontend/src/App.tsx): the form state, the debounce  *)
(* effect and the calculateLoan calls it issues.  The 250 ms of the        *)
(* timeout are not counted: a timeout that is set has not yet elapsed, and *)
(* it may elapse at any moment at which no input changes.  The backend is  *)
(* seen through its responses only; a response may arrive in any order.    *)
(***************************************************************************)
\* the calculateLoan calls of one run of the component
MaxRequests == 2

\* new Date() of getDefaultDates, as a calendar day
Today == DateString(2024, 2, 28)

\* getDefaultDates(): today and seven days later
GetDefaultDates ==
    [start |-> Today, end |-> Format(AddDays(ParseISO(Today), 7))]

\* the values typed into the amount field and picked in the date fields
CreditTypeValues == {"Range Plain", "Mela Monthly"}
AmountValues == {NumberInput(v) : v \in {NaN, Etb(100), Etb(2000)}}
StartValues == {Today, DateString(2024, 3, 7)}
EndValues == {GetDefaultDates.end, DateString(2024, 3, 1)}

\* result === null
NoResult == [null |-> TRUE]

\* no timeout is set
NoTimeout == [set |-> FALSE]

\* setTimeout(() => triggerCalculation(payload), 250)
Timeout(payload) == [set |-> TRUE, payload |-> payload]

BuildInitialPayload(creditType, amount, startDate, endDate) ==
    [creditType |-> creditType, loanAmount |-> amount,
     startDate |-> startDate, endDate |-> endDate]

\* what the backend answers to a payload it accepts: the result of that payload
CalculateLoanResponse(payload) == [request |-> payload]

IsTieredCredit(credit) == "amounts" \in DOMAIN credit

\* a > b on the yyyy-MM-dd strings of the date fields: the comparison of
\* zero-padded strings is the comparison of year, month and day in turn
DateStringGreater(a, b) ==
    \/ a.y > b.y
    \/ a.y = b.y /\ a.m > b.m
    \/ a.y = b.y /\ a.m = b.m /\ a.d > b.d

\* findTierRangeForAmount of App.tsx: nothing above the ceiling
AppFindTierRangeForAmount(credit, amount) ==
    IF NumGt(amount, Etb(MAX_LOAN_AMOUNT)) THEN 0
    ELSE FindTierRangeForAmount(credit, amount)

\* isPayloadValid: the message it hands to setError, "" when it returns true
\* (found is the index of selectedCredit in the list, 0 when undefined)
PayloadError(payload, list, found) ==
    IF found = 0 THEN "Select a credit type to continue"
    ELSE IF NumGt(payload.loanAmount, Etb(MAX_LOAN_AMOUNT))
    THEN "Loan amount cannot exceed ETB 6,000,000"
    ELSE IF payload.loanAmount \in {Num(0), NaN} \/ NumLe(payload.loanAmount, Num(0))
    THEN "Enter a positive loan amount"
    ELSE IF DateStringGreater(payload.startDate, payload.endDate)
    THEN "Start date must be on or before the end date"
    ELSE IF IsRangeCredit(list[found]) /\ OutsideRange(payload.loanAmount, list[found])
    THEN "Loan amount must be within the allowed range for the selected credit"
    ELSE IF IsTieredCredit(list[found])
            /\ AppFindTierRangeForAmount(list[found], payload.loanAmount) = 0
    THEN "Enter a valid loan amount for this credit type"
    ELSE ""

\* the debounce effect for the inputs of a render, after the cleanup of the
\* effect of the render before (clearTimeout): the timeout it sets, if any, and
\* the message of isPayloadValid, if any
DebounceEffect(creditType, amount, range, list) ==
    IF creditType = "" \/ NumLe(amount, Num(0))
    THEN [debounce |-> NoTimeout, error |-> ""]
    ELSE LET payload == BuildInitialPayload(creditType, amount, range.start, range.end)
             message == PayloadError(payload, list, FindCredit(list, creditType))
         IN  IF message # "" THEN [debounce |-> NoTimeout, error |-> message]
             ELSE [debounce |-> Timeout(payload), error |-> ""]

AppInit ==
    /\ fetchedCredits = "pending"
    /\ uiCredits = <<>>
    /\ selectedCreditType = ""
    /\ uiLoanAmount = Num(0)
    /\ dates = GetDefaultDates
    /\ uiResult = NoResult
    /\ isLoading = FALSE
    /\ uiError = ""
    /\ debounce = NoTimeout
    /\ requests = <<>>

(***************************************************************************)
(* The state machine.                                                      *)
(***************************************************************************)
Init ==
    /\ credits = Catalog
    /\ pc = "idle"
    /\ input = Undefined
    /\ creditConfig = Undefined
    /\ loanAmount = Undefined
    /\ parsedStart = Undefined
    /\ parsedEnd = Undefined
    /\ loanPeriodDays = 0
    /\ tier = Undefined
    /\ fees = Undefined
    /\ penaltyFee = Undefined
    /\ build = Undefined
    /\ schedule = <<>>
    /\ result = Undefined
    /\ error = ""
    /\ probe = Undefined
    /\ firstOutcome = Undefined
    /\ AppInit

\* throw new BadRequestException(message): the call ends without a result
Throw(message) ==
    /\ error' = message
    /\ pc' = "done"

\* POST /calculate: calculate is entered and looks the product up
Calculate(request) ==
    /\ pc = "idle"
    /\ input' = request
    /\ LET found == FindCredit(credits, request.creditType)
       IN  IF found = 0
           THEN /\ Throw(UnsupportedCreditType)
                /\ UNCHANGED creditConfig
           ELSE /\ creditConfig' = credits[found]
                /\ pc' = "amount"
                /\ UNCHANGED error
    /\ UNCHANGED << appVars, probe, firstOutcome,
                    credits, loanAmount, parsedStart, parsedEnd, loanPeriodDays,
                    tier, fees, penaltyFee, build, schedule, result >>

\* a slip of ValidateAmount: the ceiling is checked before the sign and the
\* finiteness of the amount
ValidateAmount_CeilingFirst ==
    /\ pc = "amount"
    /\ loanAmount' = ToNumber(input.loanAmount)
    /\ IF ExceedsMaximum(loanAmount') THEN Throw(AmountTooLarge)
       ELSE IF IsNotPositive(loanAmount') THEN Throw(InvalidAmount)
       ELSE pc' = "dates" /\ UNCHANGED error
    /\ UNCHANGED << appVars, probe, firstOutcome,
                    credits, input, creditConfig, parsedStart, parsedEnd,
                    loanPeriodDays, tier, fees, penaltyFee, build, schedule, result >>

\* the checks of the amount
ValidateAmount ==
    /\ pc = "amount"
    /\ loanAmount' = ToNumber(input.loanAmount)
    /\ IF IsNotPositive(loanAmount') THEN Throw(InvalidAmount)
       ELSE IF ExceedsMaximum(loanAmount') THEN Throw(AmountTooLarge)
       ELSE pc' = "dates" /\ UNCHANGED error
    /\ UNCHANGED << appVars, probe, firstOutcome,
                    credits, input, creditConfig, parsedStart, parsedEnd,
                    loanPeriodDays, tier, fees, penaltyFee, build, schedule, result >>

\* the checks of the dates and the period
ValidateDates ==
    /\ pc = "dates"
    /\ parsedStart' = ParseISO(input.startDate)
    /\ parsedEnd' = ParseISO(input.endDate)
    /\ IF ~IsValid(parsedStart') \/ ~IsValid(parsedEnd')
       THEN Throw(InvalidDateFormat) /\ UNCHANGED loanPeriodDays
       ELSE IF StartsAfterEnd(parsedStart', parsedEnd')
       THEN Throw(InvalidDateRange) /\ UNCHANGED loanPeriodDays
       ELSE /\ loanPeriodDays' = PeriodDays(parsedStart', parsedEnd')
            /\ IF loanPeriodDays' <= 0 THEN Throw(InvalidPeriod)
               ELSE pc' = "dispatch" /\ UNCHANGED error
    /\ UNCHANGED << appVars, probe, firstOutcome,
                    credits, input, creditConfig, loanAmount, tier, fees,
                    penaltyFee, build, schedule, result >>

\* a slip of Dispatch: buildTierRanges sorts credit.amounts itself, not a copy
Dispatch_SortsInPlace ==
    /\ pc = "dispatch"
    /\ IF IsRangeCredit(creditConfig)
       THEN /\ IF OutsideRange(loanAmount, creditConfig) THEN Throw(AmountOutOfRange)
               ELSE pc' = "range" /\ UNCHANGED error
            /\ UNCHANGED << tier, credits >>
       ELSE LET matched == FindTierRangeForAmount(creditConfig, loanAmount)
                at == FindCredit(credits, creditConfig.type)
            IN  /\ credits' = [credits EXCEPT ![at].amounts = SortByAmount(@)]
                /\ IF matched = 0
                   THEN Throw(NoMatchingTier) /\ UNCHANGED tier
                   ELSE /\ tier' = BuildTierRanges(creditConfig)[matched].tier
                        /\ pc' = "tiered"
                        /\ UNCHANGED error
    /\ UNCHANGED << appVars, probe, firstOutcome,
                    input, creditConfig, loanAmount, parsedStart, parsedEnd,
                    loanPeriodDays, fees, penaltyFee, build, schedule, result >>

\* a slip of Dispatch: the resolved tier is taken out of the amounts of the
\* product in the catalog (a splice where a read was meant)
Dispatch_ConsumesTier ==
    /\ pc = "dispatch"
    /\ IF IsRangeCredit(creditConfig)
       THEN /\ IF OutsideRange(loanAmount, creditConfig) THEN Throw(AmountOutOfRange)
               ELSE pc' = "range" /\ UNCHANGED error
            /\ UNCHANGED << tier, credits >>
       ELSE LET matched == FindTierRangeForAmount(creditConfig, loanAmount)
                resolved == BuildTierRanges(creditConfig)[matched].tier
                at == FindCredit(credits, creditConfig.type)
            IN  IF matched = 0
                THEN Throw(NoMatchingTier) /\ UNCHANGED << tier, credits >>
                ELSE /\ tier' = resolved
                     /\ credits' = [credits EXCEPT ![at].amounts =
                                        SelectSeq(@, LAMBDA t : t # resolved)]
                     /\ pc' = "tiered"
                     /\ UNCHANGED error
    /\ UNCHANGED << appVars, probe, firstOutcome,
                    input, creditConfig, loanAmount, parsedStart, parsedEnd,
                    loanPeriodDays, fees, penaltyFee, build, schedule, result >>

\* the dispatch on the shape of the product
Dispatch ==
    /\ pc = "dispatch"
    /\ IF IsRangeCredit(creditConfig)
       THEN /\ IF OutsideRange(loanAmount, creditConfig) THEN Throw(AmountOutOfRange)
               ELSE pc' = "range" /\ UNCHANGED error
            /\ UNCHANGED tier
       ELSE LET matched == FindTierRangeForAmount(creditConfig, loanAmount)
            IN  IF matched = 0
                THEN Throw(NoMatchingTier) /\ UNCHANGED tier
                ELSE /\ tier' = BuildTierRanges(creditConfig)[matched].tier
                     /\ pc' = "tiered"
                     /\ UNCHANGED error
    /\ UNCHANGED << appVars, probe, firstOutcome,
                    credits, input, creditConfig, loanAmount, parsedStart, parsedEnd,
                    loanPeriodDays, fees, penaltyFee, build, schedule, result >>

\* calculateForRangeCredit up to its loop
CalculateForRangeCredit ==
    /\ pc = "range"
    /\ fees' = RangeFrame(loanAmount, creditConfig)
    /\ pc' = "rangeLoop"
    /\ UNCHANGED << appVars, probe, firstOutcome,
                    credits, input, creditConfig, loanAmount, parsedStart, parsedEnd,
                    loanPeriodDays, tier, penaltyFee, build, schedule, result, error >>

\* one iteration of the loop of calculateForRangeCredit, or its end and the total
RangeDailyFeeStep ==
    /\ pc = "rangeLoop"
    /\ IF fees.dayIndex < loanPeriodDays
       THEN /\ fees' = RangeDailyFeeBody(fees)
            /\ UNCHANGED pc
       ELSE /\ fees' = [fees EXCEPT
                           !.totalDailyFee = RoundTwoDecimals(Reduce(fees.dailyFees))]
            /\ pc' = "penalty"
    /\ UNCHANGED << appVars, probe, firstOutcome,
                    credits, input, creditConfig, loanAmount, parsedStart, parsedEnd,
                    loanPeriodDays, tier, penaltyFee, build, schedule, result, error >>

\* calculateForTieredCredit: the facilitation fee and the daily fees
CalculateForTieredCredit ==
    /\ pc = "tiered"
    /\ fees' = TieredFrame(loanAmount, loanPeriodDays, creditConfig, tier)
    /\ pc' = "penalty"
    /\ UNCHANGED << appVars, probe, firstOutcome,
                    credits, input, creditConfig, loanAmount, parsedStart, parsedEnd,
                    loanPeriodDays, tier, penaltyFee, build, schedule, result, error >>

\* the call of computePenaltyFee of either path
PenaltyStep ==
    /\ pc = "penalty"
    /\ penaltyFee' = ComputePenaltyFee(loanAmount, parsedStart, parsedEnd,
                                       fees.paymentPeriodDays, fees.penaltyPercent)
    /\ pc' = "schedule"
    /\ UNCHANGED << appVars, probe, firstOutcome,
                    credits, input, creditConfig, loanAmount, parsedStart, parsedEnd,
                    loanPeriodDays, tier, fees, build, schedule, result, error >>

\* buildSchedule is entered
BuildSchedule ==
    /\ pc = "schedule"
    /\ build' = ScheduleFrame(loanPeriodDays, fees.paymentPeriodDays, penaltyFee)
    /\ pc' = "scheduleLoop"
    /\ UNCHANGED << appVars, probe, firstOutcome,
                    credits, input, creditConfig, loanAmount, parsedStart, parsedEnd,
                    loanPeriodDays, tier, fees, penaltyFee, schedule, result, error >>

\* one call of the callback of Array.from, or the return of buildSchedule
ScheduleLineStep ==
    /\ pc = "scheduleLoop"
    /\ IF build.index < ScheduleLength(loanPeriodDays)
       THEN /\ build' = ScheduleLine(build, loanAmount, parsedStart,
                                     fees.paymentPeriodDays, fees.dailyFees)
            /\ UNCHANGED << pc, schedule >>
       ELSE /\ schedule' = build.lines
            /\ pc' = "return"
            /\ UNCHANGED build
    /\ UNCHANGED << appVars, probe, firstOutcome,
                    credits, input, creditConfig, loanAmount, parsedStart, parsedEnd,
                    loanPeriodDays, tier, fees, penaltyFee, result, error >>

\* the return statement of either path
Return ==
    /\ pc = "return"
    /\ result' = [creditType |-> creditConfig.type,
                  loanAmount |-> loanAmount,
                  loanPeriodDays |-> loanPeriodDays,
                  facilitationFee |-> fees.facilitationFee,
                  dailyFee |-> fees.totalDailyFee,
                  penaltyFee |-> penaltyFee,
                  totalRepayment |-> TotalRepayment(loanAmount, fees.facilitationFee,
                                                    fees.totalDailyFee, penaltyFee),
                  schedule |-> schedule]
    /\ pc' = "done"
    /\ UNCHANGED << appVars, probe, firstOutcome,
                    credits, input, creditConfig, loanAmount, parsedStart, parsedEnd,
                    loanPeriodDays, tier, fees, penaltyFee, build, schedule, error >>

\* what the caller of calculate gets: the result or the error
Outcome == [result |-> result, error |-> error]

\* the controller hands the result or the error to the caller; the locals of the
\* call are gone
Respond ==
    /\ pc = "done"
    /\ pc' = "idle"
    /\ input' = Undefined
    /\ creditConfig' = Undefined
    /\ loanAmount' = Undefined
    /\ parsedStart' = Undefined
    /\ parsedEnd' = Undefined
    /\ loanPeriodDays' = 0
    /\ tier' = Undefined
    /\ fees' = Undefined
    /\ penaltyFee' = Undefined
    /\ build' = Undefined
    /\ schedule' = <<>>
    /\ result' = Undefined
    /\ error' = ""
    /\ firstOutcome' = IF input = probe /\ firstOutcome = Undefined
                       THEN Outcome ELSE firstOutcome
    /\ UNCHANGED << appVars, probe, credits >>

Next ==
    \/ \E request \in Requests : Calculate(request)
    \/ ValidateAmount
    \/ ValidateDates
    \/ Dispatch
    \/ CalculateForRangeCredit
    \/ RangeDailyFeeStep
    \/ CalculateForTieredCredit
    \/ PenaltyStep
    \/ BuildSchedule
    \/ ScheduleLineStep
    \/ Return
    \/ Respond

Spec == Init /\ [][Next]_vars

(***************************************************************************)
(* The steps of the App component.                                         *)
(***************************************************************************)
\* a render with new form state: nothing happens when no dependency of the
\* debounce effect changed; otherwise the cleanup clears the timeout that is
\* pending and the effect runs on the new inputs
Render(creditType, amount, range, list) ==
    /\ << creditType, amount, range, list >>
           # << selectedCreditType, uiLoanAmount, dates, uiCredits >>
    /\ selectedCreditType' = creditType
    /\ uiLoanAmount' = amount
    /\ dates' = range
    /\ uiCredits' = list
    /\ LET effect == DebounceEffect(creditType, amount, range, list)
       IN  /\ debounce' = effect.debounce
           /\ uiError' = IF effect.error # "" THEN effect.error ELSE uiError

\* loadCredits: fetchCredits resolves and the first product is selected
LoadCredits ==
    /\ fetchedCredits = "pending"
    /\ fetchedCredits' = "settled"
    /\ LET data == Catalog
           firstCredit == data[1]
       IN  Render(firstCredit.type,
                  IF IsRangeCredit(firstCredit) THEN firstCredit.minLoan
                  ELSE firstCredit.amounts[1].amount,
                  dates, data)
    /\ UNCHANGED << serviceVars, uiResult, isLoading, requests >>

\* loadCredits: fetchCredits rejects
LoadCreditsFails ==
    /\ fetchedCredits = "pending"
    /\ fetchedCredits' = "settled"
    /\ uiError' = "Unable to load credits"
    /\ UNCHANGED << serviceVars, uiCredits, selectedCreditType, uiLoanAmount, dates,
                    uiResult, isLoading, debounce, requests >>

HandleCreditTypeChange(value) ==
    /\ LET found == FindCredit(uiCredits, value)
           credit == uiCredits[found]
           amount ==
               IF found = 0 THEN uiLoanAmount
               ELSE IF IsRangeCredit(credit)
               THEN MathMin(credit.minLoan, Etb(MAX_LOAN_AMOUNT))
               ELSE MathMin(BuildTierRanges(credit)[1].min, Etb(MAX_LOAN_AMOUNT))
       IN  Render(value, amount, dates, uiCredits)
    /\ UNCHANGED << serviceVars, fetchedCredits, uiResult, isLoading, requests >>

HandleLoanAmountChange(value) ==
    /\ LET numeric == ToNumber(value)
           clamped == IF ~IsFinite(numeric) THEN Num(0)
                      ELSE MathMin(MathMax(numeric, Num(0)), Etb(MAX_LOAN_AMOUNT))
       IN  Render(selectedCreditType, clamped, dates, uiCredits)
    /\ UNCHANGED << serviceVars, fetchedCredits, uiResult, isLoading, requests >>

HandleStartDateChange(value) ==
    /\ Render(selectedCreditType, uiLoanAmount, [dates EXCEPT !.start = value], uiCredits)
    /\ UNCHANGED << serviceVars, fetchedCredits, uiResult, isLoading, requests >>

HandleEndDateChange(value) ==
    /\ Render(selectedCreditType, uiLoanAmount, [dates EXCEPT !.end = value], uiCredits)
    /\ UNCHANGED << serviceVars, fetchedCredits, uiResult, isLoading, requests >>

\* the timeout elapses: triggerCalculation up to its await
TriggerCalculation ==
    /\ debounce.set
    /\ Len(requests) < MaxRequests
    /\ isLoading' = TRUE
    /\ uiError' = ""
    /\ requests' = Append(requests, [payload |-> debounce.payload, state |-> "pending"])
    /\ debounce' = NoTimeout
    /\ UNCHANGED << serviceVars, fetchedCredits, uiCredits, selectedCreditType,
                    uiLoanAmount, dates, uiResult >>

\* calculateLoan of the call i resolves: triggerCalculation after its await
CalculationResolves(i) ==
    /\ requests[i].state = "pending"
    /\ requests' = [requests EXCEPT ![i].state = "resolved"]
    /\ uiResult' = CalculateLoanResponse(requests[i].payload)
    /\ isLoading' = FALSE
    /\ UNCHANGED << serviceVars, fetchedCredits, uiCredits, selectedCreditType,
                    uiLoanAmount, dates, uiError, debounce >>

\* calculateLoan of the call i rejects: the catch block of triggerCalculation
CalculationRejects(i) ==
    /\ requests[i].state = "pending"
    /\ requests' = [requests EXCEPT ![i].state = "rejected"]
    /\ uiResult' = NoResult
    /\ uiError' = "Calculation failed"
    /\ isLoading' = FALSE
    /\ UNCHANGED << serviceVars, fetchedCredits, uiCredits, selectedCreditType,
                    uiLoanAmount, dates, debounce >>

NextApp ==
    \/ LoadCredits
    \/ LoadCreditsFails
    \/ \E value \in CreditTypeValues : HandleCreditTypeChange(value)
    \/ \E value \in AmountValues : HandleLoanAmountChange(value)
    \/ \E value \in StartValues : HandleStartDateChange(value)
    \/ \E value \in EndValues : HandleEndDateChange(value)
    \/ TriggerCalculation
    \/ \E i \in 1..Len(requests) : CalculationResolves(i)
    \/ \E i \in 1..Len(requests) : CalculationRejects(i)

SpecApp == Init /\ [][NextApp]_vars

(***************************************************************************)
(* Repeated calls.  The same calls, with the first response to one request *)
(* (probe) kept as history, so that a later response to the same request,  *)
(* after any calls in between, can be compared with it.  A calculate call  *)
(* runs to its end without yielding (it awaits nothing), so calls follow   *)
(* one another and do not interleave.                                      *)
(***************************************************************************)
RepeatRequests ==
    [creditType : {"Range Capped", "Mela Monthly", "50 Days Mela", "Unknown"},
     loanAmount : {NumberInput(v) :
                      v \in {Num(0), Etb(100), EtbMilli(100, 500), Etb(500), Etb(2000)}},
     startDate : {DateString(2024, 2, 28)},
     endDate : {DateString(2024, 2, 28), DateString(2024, 3, 2), DateString(2023, 2, 29)}]

InitRepeat ==
    /\ credits = Catalog
    /\ pc = "idle"
    /\ input = Undefined
    /\ creditConfig = Undefined
    /\ loanAmount = Undefined
    /\ parsedStart = Undefined
    /\ parsedEnd = Undefined
    /\ loanPeriodDays = 0
    /\ tier = Undefined
    /\ fees = Undefined
    /\ penaltyFee = Undefined
    /\ build = Undefined
    /\ schedule = <<>>
    /\ result = Undefined
    /\ error = ""
    /\ probe \in RepeatRequests
    /\ firstOutcome = Undefined
    /\ AppInit

NextRepeat ==
    \/ \E request \in RepeatRequests : Calculate(request)
    \/ ValidateAmount
    \/ ValidateDates
    \/ Dispatch
    \/ CalculateForRangeCredit
    \/ RangeDailyFeeStep
    \/ CalculateForTieredCredit
    \/ PenaltyStep
    \/ BuildSchedule
    \/ ScheduleLineStep
    \/ Return
    \/ Respond

SpecRepeat == InitRepeat /\ [][NextRepeat]_vars

(***************************************************************************)
(* Vocabulary of the properties.  The reference values below are computed  *)
(* from the request and the catalog, not from the locals of the call.      *)
(***************************************************************************)
Done == pc = "done"
Succeeded == pc = "done" /\ error = ""

\* the product the request names (defined when the type is known)
KnownType == FindCredit(credits, input.creditType) # 0
RequestedCredit == credits[FindCredit(credits, input.creditType)]
RequestedAmount == ToNumber(input.loanAmount)

AmountIsValid ==
    /\ IsFinite(RequestedAmount)
    /\ NumLt(Num(0), RequestedAmount)
    /\ NumLe(RequestedAmount, Etb(MAX_LOAN_AMOUNT))

\* calendar dates compared and stepped field by field
IsCalendarDate(s) == s.m \in 1..12 /\ s.d >= 1 /\ s.d <= DaysInMonth(s.y, s.m)

DateBefore(a, b) ==
    \/ a.y < b.y
    \/ a.y = b.y /\ a.m < b.m
    \/ a.y = b.y /\ a.m = b.m /\ a.d < b.d

NextDay(s) ==
    IF s.d < DaysInMonth(s.y, s.m) THEN DateString(s.y, s.m, s.d + 1)
    ELSE IF s.m < 12 THEN DateString(s.y, s.m + 1, 1)
    ELSE DateString(s.y + 1, 1, 1)

\* the calendar days from a up to, not including, b
DaysBetween(a, b) ==
    Cardinality({s \in [y : a.y..b.y, m : 1..12, d : 1..31] :
                    IsCalendarDate(s) /\ ~DateBefore(s, a) /\ DateBefore(s, b)})

DatesAreValid == IsCalendarDate(input.startDate) /\ IsCalendarDate(input.endDate)

\* the tiers of a tiered product whose interval [amount, next amount) holds a:
\* those of the greatest tier amount not above a
TiersFor(credit, a) ==
    LET all == {credit.amounts[i] : i \in 1..Len(credit.amounts)}
    IN  {t \in all : /\ NumLe(t.amount, a)
                     /\ \A u \in all : NumLe(u.amount, a) => NumLe(u.amount, t.amount)}

\* the allowed payment period of the request
AllowedPeriodDays ==
    IF IsRangeCredit(RequestedCredit) THEN RequestedCredit.paymentPeriodDays
    ELSE IF RequestedCredit.type = "Mela Monthly" THEN 30
    ELSE IF RequestedCredit.type = "50 Days Mela" THEN 50
    ELSE IF RequestedCredit.type = "Endekise" THEN 30
    ELSE result.loanPeriodDays

\* the penalty rates that may apply to the request
PenaltyPercents ==
    IF IsRangeCredit(RequestedCredit) THEN {RequestedCredit.penaltyPercent}
    ELSE {t.penaltyPercent : t \in TiersFor(RequestedCredit, RequestedAmount)}

ScheduleDailyFees == [i \in 1..Len(result.schedule) |-> result.schedule[i].dailyFee]

ExactSum(a, b, c, d) == NumAdd(NumAdd(NumAdd(a, b), c), d)

(***************************************************************************)
(* C1  totalRepayment is exactly loanAmount + facilitationFee + dailyFee + *)
(* penaltyFee of the same result.  Violated: the sum is rounded to cents   *)
(* while the loanAmount of the result is returned unrounded.               *)
(***************************************************************************)
C1_TotalIsExactSum ==
    Succeeded =>
        result.totalRepayment =
            ExactSum(result.loanAmount, result.facilitationFee,
                     result.dailyFee, result.penaltyFee)

(***************************************************************************)
(* C2  The schedule of a successful call has loanPeriodDays lines; the     *)
(* first line is dated startDate, each later line one calendar day after   *)
(* the line before it, and the last line is dated endDate.                 *)
(***************************************************************************)
C2_ScheduleDates ==
    Succeeded =>
        LET lines == result.schedule
        IN  /\ Len(lines) = result.loanPeriodDays
            /\ Len(lines) >= 1
            /\ lines[1].date = input.startDate
            /\ \A i \in 1..(Len(lines) - 1) : lines[i + 1].date = NextDay(lines[i].date)
            /\ lines[Len(lines)].date = input.endDate

\* a schedule that runs over the end of a year and over a 29 February
C2_Witness ==
    /\ Succeeded
    /\ input.startDate = DateString(2023, 12, 31)
    /\ input.endDate = DateString(2024, 3, 1)
    /\ Len(result.schedule) = 62

(***************************************************************************)
(* C3  For a range product whose dailyFeeMaxPercent is present (any value  *)
(* >= 0) the per-day daily fees sum to no more than the cap loanAmount *   *)
(* dailyFeeMaxPercent / 100, half a cent of rounding per day aside, and so *)
(* does the returned dailyFee; when baseDailyFee * loanPeriodDays <= cap   *)
(* the returned dailyFee is that of the same product without the cap.      *)
(* Violated: a dailyFeeMaxPercent of 0 is taken as no cap.                 *)
(***************************************************************************)
C3_CapBoundsDailyFees ==
    (Succeeded /\ IsRangeCredit(RequestedCredit)
               /\ "dailyFeeMaxPercent" \in DOMAIN RequestedCredit) =>
        LET credit == RequestedCredit
            cap == NumTimesDiv(RequestedAmount, credit.dailyFeeMaxPercent, 100)
            tolerance == NumTimesDiv(Num(1), result.loanPeriodDays, 2)
            base == NumTimesDiv(RequestedAmount, credit.dailyFeePercent, 100)
        IN  /\ NumLe(Reduce(ScheduleDailyFees), NumAdd(cap, tolerance))
            /\ NumLe(result.dailyFee, NumAdd(cap, tolerance))
            /\ NumLe(NumTimes(base, result.loanPeriodDays), cap) =>
                   result.dailyFee =
                       RoundTwoDecimals(NumTimes(RoundTwoDecimals(base), result.loanPeriodDays))

(***************************************************************************)
(* C4  (as claimed) penaltyFee is 0 whenever loanPeriodDays <=             *)
(* allowedPeriodDays; otherwise it is strictly positive and equals         *)
(* loanAmount * penaltyPercent * overdueDays / 100 rounded once, with      *)
(* overdueDays = loanPeriodDays - allowedPeriodDays.  Violated: with a     *)
(* penaltyPercent of 0 an overdue loan has penalty 0.                      *)
(***************************************************************************)
C4_PenaltyPositiveWhenOverdue ==
    Succeeded =>
        LET overdueDays == result.loanPeriodDays - AllowedPeriodDays
        IN  IF overdueDays <= 0 THEN result.penaltyFee = Num(0)
            ELSE /\ NumLt(Num(0), result.penaltyFee)
                 /\ \E p \in PenaltyPercents :
                        result.penaltyFee =
                            RoundTwoDecimals(NumTimesDiv(RequestedAmount, p * overdueDays, 100))

(***************************************************************************)
(* C4  (amended) penaltyFee is 0 whenever loanPeriodDays <=                *)
(* allowedPeriodDays; otherwise it equals loanAmount * penaltyPercent *    *)
(* overdueDays / 100 rounded once, which is strictly positive exactly when *)
(* the unrounded product is at least half a cent, and 0 when               *)
(* penaltyPercent is 0.                                                    *)
(***************************************************************************)
C4_PenaltyAmended ==
    Succeeded =>
        LET overdueDays == result.loanPeriodDays - AllowedPeriodDays
        IN  IF overdueDays <= 0 THEN result.penaltyFee = Num(0)
            ELSE \E p \in PenaltyPercents :
                    LET unrounded == NumTimesDiv(RequestedAmount, p * overdueDays, 100)
                    IN  /\ result.penaltyFee = RoundTwoDecimals(unrounded)
                        /\ NumLt(Num(0), result.penaltyFee)
                               <=> NumLe(NumTimesDiv(Num(1), 1, 2), unrounded)
                        /\ p = 0 => result.penaltyFee = Num(0)

\* an overdue loan of a tiered product, with a positive penalty
C4_Witness ==
    /\ Succeeded
    /\ ~IsRangeCredit(RequestedCredit)
    /\ result.loanPeriodDays > AllowedPeriodDays
    /\ NumLt(Num(0), result.penaltyFee)

(***************************************************************************)
(* C5  A tiered request resolves to a tier of the greatest tier amount not *)
(* above loanAmount, i.e. to the tier whose half-open interval             *)
(* [tier.amount, nextTier.amount) holds the amount (so an amount equal to  *)
(* a tier's amount takes that tier, not the one below), and the fees of    *)
(* the result are those of that tier's percentages.                        *)
(***************************************************************************)
C5_TierResolution ==
    (Succeeded /\ ~IsRangeCredit(RequestedCredit)) =>
        \E t \in TiersFor(RequestedCredit, RequestedAmount) :
            /\ result.facilitationFee =
                   RoundTwoDecimals(NumTimesDiv(RequestedAmount, t.facilitationFeePercent, 100))
            /\ result.dailyFee =
                   RoundTwoDecimals(NumTimes(NumTimesDiv(RequestedAmount, t.dailyFeePercent, 100),
                                             result.loanPeriodDays))
            /\ \A i \in 1..Len(result.schedule) :
                   result.schedule[i].dailyFee =
                       RoundTwoDecimals(NumTimesDiv(RequestedAmount, t.dailyFeePercent, 100))

\* an amount equal to the amount of the upper tier of 'Mela Monthly'
C5_Witness ==
    /\ Succeeded
    /\ input.creditType = "Mela Monthly"
    /\ RequestedAmount = Etb(2000)
    /\ result.facilitationFee = Etb(60)

(***************************************************************************)
(* C6  The returned dailyFee is the sum of the dailyFee of the schedule    *)
(* lines (each rounded), itself rounded to cents, for range and tiered     *)
(* products.  Violated: the tiered path rounds baseDailyFee *              *)
(* loanPeriodDays instead of summing the rounded per-day fees.             *)
(***************************************************************************)
C6_DailyFeeIsSumOfLines ==
    Succeeded => result.dailyFee = RoundTwoDecimals(Reduce(ScheduleDailyFees))

(***************************************************************************)
(* C7  For a known credit type, a loanAmount that is not a positive finite *)
(* number ends the call with InvalidAmount, a finite loanAmount above      *)
(* 6,000,000 ends it with AmountTooLarge, and a loanAmount of exactly      *)
(* 6,000,000 is refused by neither of the two checks.                      *)
(***************************************************************************)
C7_AmountErrors ==
    (Done /\ KnownType) =>
        LET a == RequestedAmount
        IN  /\ (~IsFinite(a) \/ ~NumLt(Num(0), a)) => error = InvalidAmount
            /\ (IsFinite(a) /\ NumLt(Etb(MAX_LOAN_AMOUNT), a)) => error = AmountTooLarge
            /\ a = Etb(MAX_LOAN_AMOUNT) => error \notin {InvalidAmount, AmountTooLarge}
            /\ error \in {InvalidAmount, AmountTooLarge} => "undefined" \in DOMAIN result

\* a loan of exactly the ceiling is calculated
C7_Witness ==
    /\ Succeeded
    /\ RequestedAmount = Etb(MAX_LOAN_AMOUNT)
    /\ result.loanAmount = Etb(MAX_LOAN_AMOUNT)

(***************************************************************************)
(* C8  For a known credit type, a valid amount and two valid calendar      *)
(* dates, the call ends with the date range error if and only if startDate *)
(* is strictly after endDate; a startDate equal to endDate is accepted.    *)
(***************************************************************************)
C8_DateRangeError ==
    (Done /\ KnownType /\ AmountIsValid /\ DatesAreValid) =>
        /\ error = InvalidDateRange <=> DateBefore(input.endDate, input.startDate)
        /\ error \notin {InvalidDateFormat, InvalidPeriod}
        /\ input.startDate = input.endDate =>
               error \in {"", AmountOutOfRange, NoMatchingTier}

\* a loan that starts and ends on the same day is calculated
C8_Witness ==
    /\ Succeeded
    /\ input.startDate = input.endDate
    /\ Len(result.schedule) = 1

(***************************************************************************)
(* C9  loanPeriodDays of a successful result is the inclusive count of     *)
(* calendar days from startDate to endDate (the days between them + 1):    *)
(* it is at least 1, and 1 for a loan that starts and ends the same day.   *)
(***************************************************************************)
C9_InclusivePeriod ==
    Succeeded =>
        /\ result.loanPeriodDays = DaysBetween(input.startDate, input.endDate) + 1
        /\ result.loanPeriodDays >= 1
        /\ input.startDate = input.endDate => result.loanPeriodDays = 1

\* 31 December 2023 to 29 February 2024: 1 + 31 + 29 days
C9_Witness ==
    /\ Succeeded
    /\ input.startDate = DateString(2023, 12, 31)
    /\ input.endDate = DateString(2024, 2, 29)
    /\ result.loanPeriodDays = 61

(***************************************************************************)
(* C10  For a range product and an otherwise valid request (valid amount,  *)
(* valid dates, start not after end) the call succeeds if and only if      *)
(* minLoan <= loanAmount <= maxLoan, both bounds included; any other       *)
(* amount ends it with AmountOutOfRange and without a result.              *)
(***************************************************************************)
C10_RangeBounds ==
    (Done /\ KnownType /\ AmountIsValid /\ DatesAreValid
          /\ ~DateBefore(input.endDate, input.startDate)
          /\ IsRangeCredit(RequestedCredit)) =>
        LET within == /\ NumLe(RequestedCredit.minLoan, RequestedAmount)
                      /\ NumLe(RequestedAmount, RequestedCredit.maxLoan)
        IN  /\ error = "" <=> within
            /\ within => "totalRepayment" \in DOMAIN result
            /\ ~within => (error = AmountOutOfRange /\ "undefined" \in DOMAIN result)

\* a loan of exactly maxLoan is calculated
C10_Witness ==
    /\ Succeeded
    /\ IsRangeCredit(RequestedCredit)
    /\ RequestedAmount = RequestedCredit.maxLoan

\* an otherwise valid request: known type, valid amount, valid dates in order
OtherwiseValid ==
    /\ KnownType
    /\ AmountIsValid
    /\ DatesAreValid
    /\ ~DateBefore(input.endDate, input.startDate)

(***************************************************************************)
(* C11  For a tiered product and an otherwise valid request the call ends  *)
(* with NoMatchingTier exactly when no tier interval holds loanAmount,     *)
(* which is when loanAmount is below the amount of every tier; every       *)
(* amount from the lowest tier amount up to the ceiling resolves to a tier *)
(* and is calculated.                                                      *)
(***************************************************************************)
C11_NoMatchingTier ==
    (Done /\ OtherwiseValid /\ ~IsRangeCredit(RequestedCredit)) =>
        LET tiers == RequestedCredit.amounts
            belowAll == \A i \in 1..Len(tiers) : NumLt(RequestedAmount, tiers[i].amount)
        IN  /\ belowAll <=> TiersFor(RequestedCredit, RequestedAmount) = {}
            /\ error = NoMatchingTier <=> belowAll
            /\ belowAll => "undefined" \in DOMAIN result
            /\ ~belowAll => (error = "" /\ "totalRepayment" \in DOMAIN result)

\* an amount just below the lowest tier of '50 Days Mela' is refused
C11_Witness ==
    /\ Done
    /\ input.creditType = "50 Days Mela"
    /\ RequestedAmount = EtbMilli(499, 999)
    /\ error = NoMatchingTier

\* the errors calculate raises
Errors ==
    {UnsupportedCreditType, InvalidAmount, AmountTooLarge, InvalidDateFormat,
     InvalidDateRange, InvalidPeriod, AmountOutOfRange, NoMatchingTier}

\* no step of the fee, penalty or schedule computation has been taken
NothingComputed ==
    /\ fees = Undefined
    /\ penaltyFee = Undefined
    /\ build = Undefined
    /\ schedule = <<>>
    /\ result = Undefined

\* the call is inside the range or tiered path
Computing ==
    pc \in {"range", "rangeLoop", "tiered", "penalty", "schedule", "scheduleLoop", "return"}

(***************************************************************************)
(* C12  Every error of calculate is raised before any step of the fee,     *)
(* penalty or schedule computation: in a state with an error nothing has   *)
(* been computed and there is no result, and inside the computation there  *)
(* is no error.  A call ends either with an error and no result or with a  *)
(* complete result (every field, one schedule line per day of the          *)
(* period), never with a partial one.                                      *)
(***************************************************************************)
C12_ErrorsBeforeComputation ==
    /\ error # "" => (Done /\ error \in Errors /\ NothingComputed)
    /\ Computing => (error = "" /\ result = Undefined)
    /\ (Done /\ error = "") =>
           /\ DOMAIN result = {"creditType", "loanAmount", "loanPeriodDays",
                               "facilitationFee", "dailyFee", "penaltyFee",
                               "totalRepayment", "schedule"}
           /\ result.loanPeriodDays =
                  DifferenceInCalendarDays(ParseISO(input.endDate),
                                           ParseISO(input.startDate)) + 1
           /\ Len(result.schedule) = result.loanPeriodDays
           /\ \A i \in 1..Len(result.schedule) :
                  DOMAIN result.schedule[i] =
                      {"date", "outstandingPrincipal", "dailyFee", "penaltyFee", "subtotal"}
    /\ ~Done => result = Undefined

\* the last check of calculate, the range of the amount, fails: nothing was computed
C12_Witness ==
    /\ Done
    /\ error = AmountOutOfRange
    /\ NothingComputed
    /\ loanPeriodDays = 62

(***************************************************************************)
(* C13  calculate has no hidden state: the response (result or error) to a *)
(* request is the response the same request got the first time, whatever   *)
(* calls were made in between.                                             *)
(***************************************************************************)
C13_NoHiddenState ==
    (Done /\ input = probe /\ firstOutcome # Undefined) => Outcome = firstOutcome

\* a tiered request is answered a second time, with a result
C13_Witness ==
    /\ Done
    /\ input = probe
    /\ firstOutcome # Undefined
    /\ input.creditType = "Mela Monthly"
    /\ error = ""
    /\ result.facilitationFee = Etb(60)

(***************************************************************************)
(* C14  After any sequence of calculate calls, ended or under way, the     *)
(* catalog is unchanged: getCredits returns the products as loaded, with   *)
(* the same field values and the same order of tiers; tier resolution      *)
(* sorts a copy of a product's amounts.                                    *)
(***************************************************************************)
C14_CatalogUnchanged ==
    /\ GetCredits = Catalog
    /\ creditConfig # Undefined => \E i \in 1..Len(Catalog) : creditConfig = Catalog[i]

\* a call on 'Mela Monthly', whose tiers are listed out of order, resolved the
\* lower tier (the first of the sorted copy) and the list is still as loaded
C14_Witness ==
    /\ Succeeded
    /\ input.creditType = "Mela Monthly"
    /\ tier.amount = Etb(100)
    /\ RequestedCredit.amounts[1].amount = Etb(2000)
    /\ SortByAmount(RequestedCredit.amounts) # RequestedCredit.amounts

(***************************************************************************)
(* C15  For a tiered product the allowed payment period comes from the     *)
(* table keyed by product name ('Mela Monthly' 30, '50 Days Mela' 50,      *)
(* 'Endekise' 30): the penalty is that of the days beyond it.  For a       *)
(* tiered product whose name is not in the table the allowed period is the *)
(* requested loanPeriodDays: its penaltyFee is 0 and no schedule line      *)
(* carries a penalty, for every amount, penalty rate and date range.       *)
(***************************************************************************)
C15_TieredAllowedPeriod ==
    /\ DOMAIN TIERED_PAYMENT_PERIOD_MAP = {"Mela Monthly", "50 Days Mela", "Endekise"}
    /\ TIERED_PAYMENT_PERIOD_MAP["Mela Monthly"] = 30
    /\ TIERED_PAYMENT_PERIOD_MAP["50 Days Mela"] = 50
    /\ TIERED_PAYMENT_PERIOD_MAP["Endekise"] = 30
    /\ (Succeeded /\ ~IsRangeCredit(RequestedCredit)) =>
           LET name == RequestedCredit.type
               lines == result.schedule
           IN  IF name \in {"Mela Monthly", "50 Days Mela", "Endekise"}
               THEN LET allowed == IF name = "50 Days Mela" THEN 50 ELSE 30
                        overdueDays == result.loanPeriodDays - allowed
                    IN  /\ fees.paymentPeriodDays = allowed
                        /\ overdueDays <= 0 => result.penaltyFee = Num(0)
                        /\ overdueDays > 0 =>
                               \E p \in PenaltyPercents :
                                   result.penaltyFee =
                                       RoundTwoDecimals(
                                           NumTimesDiv(RequestedAmount, p * overdueDays, 100))
                        /\ \A i \in 1..Len(lines) :
                               i <= allowed => lines[i].penaltyFee = Num(0)
               ELSE /\ fees.paymentPeriodDays = result.loanPeriodDays
                    /\ result.penaltyFee = Num(0)
                    /\ \A i \in 1..Len(lines) : lines[i].penaltyFee = Num(0)

\* a loan of 62 days on a tiered product outside the table, at a penalty rate
\* above 0, carries no penalty
C15_Witness ==
    /\ Succeeded
    /\ input.creditType = "Weekly Tiered"
    /\ tier.penaltyPercent > 0
    /\ result.loanPeriodDays = 62
    /\ result.penaltyFee = Num(0)

\* the tier listed first in the product among those of TiersFor
FirstListed(credit, a) ==
    LET hits == {i \in 1..Len(credit.amounts) : credit.amounts[i] \in TiersFor(credit, a)}
    IN  credit.amounts[CHOOSE i \in hits : \A j \in hits : i <= j]

(***************************************************************************)
(* C16  When two tiers of a tiered product have the same amount, tier      *)
(* resolution does not fail, and an amount in the interval that starts at  *)
(* the duplicated amount resolves to the first of the duplicates in the    *)
(* order of the catalog, not to a later one.  Violated: the interval of    *)
(* the first duplicate, [amount, amount), is empty and the last duplicate  *)
(* is resolved.                                                            *)
(***************************************************************************)
C16_FirstDuplicateWins ==
    (Done /\ OtherwiseValid /\ ~IsRangeCredit(RequestedCredit)
          /\ Cardinality(TiersFor(RequestedCredit, RequestedAmount)) > 1) =>
        LET first == FirstListed(RequestedCredit, RequestedAmount)
        IN  /\ error = ""
            /\ tier = first
            /\ result.facilitationFee =
                   RoundTwoDecimals(
                       NumTimesDiv(RequestedAmount, first.facilitationFeePercent, 100))

\* the fee of day i (counted from 0) of a range product under the running cap:
\* min(baseDailyFee, max(cap - sum of the fees of days 0..i-1, 0)), where the
\* fees of the days before sum to min(i * baseDailyFee, cap)
CappedFeeOfDay(base, cap, i) ==
    MathMin(base, MathMax(NumSub(cap, MathMin(NumTimes(base, i), cap)), Num(0)))

(***************************************************************************)
(* C17  For a capped range product (dailyFeeMaxPercent present) the daily  *)
(* fee of day i is min(baseDailyFee, max(cap - sum of the fees of days     *)
(* 0..i-1, 0)), emitted rounded to cents: the per-day fees never increase  *)
(* from one day to the next, and once a day's fee is 0 every later day's   *)
(* fee is 0.  Violated: with a dailyFeeMaxPercent of 0 the cap is          *)
(* exhausted from day 0 on, yet every day carries the base daily fee.      *)
(***************************************************************************)
C17_RunningCap ==
    (Succeeded /\ IsRangeCredit(RequestedCredit)
               /\ "dailyFeeMaxPercent" \in DOMAIN RequestedCredit) =>
        LET credit == RequestedCredit
            base == NumTimesDiv(RequestedAmount, credit.dailyFeePercent, 100)
            cap == NumTimesDiv(RequestedAmount, credit.dailyFeeMaxPercent, 100)
            lines == result.schedule
        IN  /\ \A i \in 1..Len(lines) :
                   lines[i].dailyFee = RoundTwoDecimals(CappedFeeOfDay(base, cap, i - 1))
            /\ \A i \in 1..(Len(lines) - 1) :
                   NumLe(lines[i + 1].dailyFee, lines[i].dailyFee)
            /\ \A i \in 1..Len(lines) : \A j \in i..Len(lines) :
                   lines[i].dailyFee = Num(0) => lines[j].dailyFee = Num(0)

SchedulePenaltyFees == [i \in 1..Len(result.schedule) |-> result.schedule[i].penaltyFee]

\* the days of the period beyond the allowed payment period
OverdueDays ==
    IF result.loanPeriodDays > AllowedPeriodDays
    THEN result.loanPeriodDays - AllowedPeriodDays ELSE 0

\* the number of overdue lines among the first i lines of the schedule
OverdueLinesThrough(i) == IF i > AllowedPeriodDays THEN i - AllowedPeriodDays ELSE 0

(***************************************************************************)
(* C18  (as claimed) In every schedule the subtotal of line i equals       *)
(* loanAmount + the sum of the daily fees of lines 0..i + the sum of the   *)
(* penalty fees of lines 0..i, outstandingPrincipal equals loanAmount on   *)
(* every line, and subtotal never decreases from one line to the next.     *)
(* Violated: subtotal and outstandingPrincipal are rounded to cents while  *)
(* loanAmount is not, and the penalties summed are the unrounded ones, not *)
(* those of the lines.                                                     *)
(***************************************************************************)
C18_SubtotalIsCumulative ==
    Succeeded =>
        LET lines == result.schedule
        IN  /\ \A i \in 1..Len(lines) :
                   /\ lines[i].subtotal =
                          NumAdd(NumAdd(result.loanAmount,
                                        SumBetween(ScheduleDailyFees, 0, i)),
                                 SumBetween(SchedulePenaltyFees, 0, i))
                   /\ lines[i].outstandingPrincipal = result.loanAmount
            /\ \A i \in 1..(Len(lines) - 1) :
                   NumLe(lines[i].subtotal, lines[i + 1].subtotal)

(***************************************************************************)
(* C18  (amended) In every schedule the subtotal of line i equals          *)
(* loanAmount + the sum of the daily fees of lines 0..i + the unrounded    *)
(* penalty penaltyFee / overdueDays of each overdue line among 0..i, the   *)
(* whole rounded to cents (a cumulative amount, not the charge of the      *)
(* day); outstandingPrincipal equals loanAmount rounded to cents on every  *)
(* line; subtotal never decreases from one line to the next.               *)
(***************************************************************************)
C18_SubtotalAmended ==
    Succeeded =>
        LET lines == result.schedule
        IN  /\ \A i \in 1..Len(lines) :
                   /\ lines[i].subtotal =
                          RoundTwoDecimals(
                              NumAdd(NumAdd(RequestedAmount,
                                            SumBetween(ScheduleDailyFees, 0, i)),
                                     IF OverdueLinesThrough(i) = 0 THEN Num(0)
                                     ELSE NumTimesDiv(result.penaltyFee,
                                                      OverdueLinesThrough(i), OverdueDays)))
                   /\ lines[i].outstandingPrincipal = RoundTwoDecimals(RequestedAmount)
            /\ \A i \in 1..(Len(lines) - 1) :
                   NumLe(lines[i].subtotal, lines[i + 1].subtotal)

\* an overdue loan whose per-day penalty is not a whole number of cents: the
\* penalties of the lines do not sum to the penalty in the last subtotal
C18_Witness ==
    /\ Succeeded
    /\ result.loanPeriodDays > AllowedPeriodDays
    /\ Reduce(SchedulePenaltyFees) # result.penaltyFee
    /\ result.schedule[Len(result.schedule)].subtotal =
           RoundTwoDecimals(NumAdd(NumAdd(RequestedAmount, Reduce(ScheduleDailyFees)),
                                   result.penaltyFee))

(***************************************************************************)
(* C19  In every schedule a line carries a penalty only if its index i     *)
(* (from 0) is >= allowedPeriodDays; each such line carries                *)
(* penaltyFeeTotal / overdueDays (emitted rounded to cents); the number of *)
(* such lines is the overdueDays of the penalty calculator, the calendar   *)
(* days from the allowed end date to endDate, which is loanPeriodDays -    *)
(* allowedPeriodDays; so the unrounded penalties of the lines sum to the   *)
(* returned penaltyFee.                                                    *)
(***************************************************************************)
C19_PenaltyLines ==
    Succeeded =>
        LET lines == result.schedule
            allowed == AllowedPeriodDays
            overdueLines == {i \in 1..Len(lines) : i - 1 >= allowed}
            allowedEndDate == AddDays(ParseISO(input.startDate), allowed - 1)
            endDate == ParseISO(input.endDate)
            calculatorDays == IF IsAfter(endDate, allowedEndDate)
                              THEN DifferenceInCalendarDays(endDate, allowedEndDate)
                              ELSE 0
        IN  /\ \A i \in 1..Len(lines) :
                   /\ lines[i].penaltyFee # Num(0) => i \in overdueLines
                   /\ i \in overdueLines =>
                          lines[i].penaltyFee =
                              RoundTwoDecimals(
                                  NumTimesDiv(result.penaltyFee, 1, Cardinality(overdueLines)))
                   /\ i \notin overdueLines => lines[i].penaltyFee = Num(0)
            /\ Cardinality(overdueLines) = calculatorDays
            /\ calculatorDays = OverdueDays
            /\ build.penaltyFeeRunningTotal = result.penaltyFee
            /\ overdueLines # {} =>
                   NumTimes(NumTimesDiv(result.penaltyFee, 1, Cardinality(overdueLines)),
                            Cardinality(overdueLines)) = result.penaltyFee

\* an overdue loan whose per-day penalty is not a whole number of cents
C19_Witness ==
    /\ Succeeded
    /\ OverdueDays > 1
    /\ build.penaltyPerDay # RoundTwoDecimals(build.penaltyPerDay)
    /\ result.schedule[Len(result.schedule)].penaltyFee =
           RoundTwoDecimals(build.penaltyPerDay)
    /\ build.penaltyFeeRunningTotal = result.penaltyFee

(***************************************************************************)
(* C20  In every successful call, range or tiered, the subtotal of the     *)
(* last schedule line plus facilitationFee equals totalRepayment.          *)
(* Violated: on the tiered path the summary dailyFee is the rounding of    *)
(* baseDailyFee * loanPeriodDays while the schedule adds up the rounded    *)
(* fees of the days.                                                       *)
(***************************************************************************)
C20_LastSubtotalAgrees ==
    Succeeded =>
        NumAdd(result.schedule[Len(result.schedule)].subtotal, result.facilitationFee)
            = result.totalRepayment

\* the conditions a request can violate, each judged on the request alone
ViolatesType == ~KnownType
ViolatesAmount == ~IsFinite(RequestedAmount) \/ ~NumLt(Num(0), RequestedAmount)
ViolatesCeiling == NumLt(Etb(MAX_LOAN_AMOUNT), RequestedAmount)
ViolatesDateFormat == ~DatesAreValid
ViolatesDateRange == DatesAreValid /\ DateBefore(input.endDate, input.startDate)
ViolatesProduct ==
    /\ KnownType
    /\ IF IsRangeCredit(RequestedCredit)
       THEN \/ NumLt(RequestedAmount, RequestedCredit.minLoan)
            \/ NumLt(RequestedCredit.maxLoan, RequestedAmount)
       ELSE TiersFor(RequestedCredit, RequestedAmount) = {}

\* the error of the first violated check in the fixed order, "" if there is none
FirstViolation ==
    IF ViolatesType THEN UnsupportedCreditType
    ELSE IF ViolatesAmount THEN InvalidAmount
    ELSE IF ViolatesCeiling THEN AmountTooLarge
    ELSE IF ViolatesDateFormat THEN InvalidDateFormat
    ELSE IF ViolatesDateRange THEN InvalidDateRange
    ELSE IF IsRangeCredit(RequestedCredit) /\ ViolatesProduct THEN AmountOutOfRange
    ELSE IF ViolatesProduct THEN NoMatchingTier
    ELSE ""

(***************************************************************************)
(* C21  A call reports exactly one error, that of the first violated check *)
(* in the order: unsupported credit type, amount not positive or not       *)
(* finite, amount above the ceiling, invalid date, start after end, then   *)
(* amount outside the bounds of the range product or no matching tier;     *)
(* whatever later checks the request violates as well.  So a tiered        *)
(* request above the ceiling ends with AmountTooLarge, never with          *)
(* NoMatchingTier.                                                         *)
(***************************************************************************)
C21_FirstViolationReported ==
    Done =>
        /\ error = FirstViolation
        /\ (KnownType /\ ~IsRangeCredit(RequestedCredit) /\ ~ViolatesAmount
                      /\ ViolatesCeiling) => error = AmountTooLarge

\* a tiered request above the ceiling that also has an invalid start date
C21_Witness ==
    /\ Done
    /\ KnownType
    /\ ~IsRangeCredit(RequestedCredit)
    /\ ViolatesCeiling
    /\ ViolatesDateFormat
    /\ error = AmountTooLarge

\* the payload of the inputs on screen
CurrentPayload ==
    BuildInitialPayload(selectedCreditType, uiLoanAmount, dates.start, dates.end)

\* no timeout is pending and every calculateLoan call that was issued has completed
Quiescent ==
    /\ ~debounce.set
    /\ requests # <<>>
    /\ \A i \in 1..Len(requests) : requests[i].state # "pending"

\* what the most recently issued call asks the screen to show
LatestOutcome ==
    LET latest == requests[Len(requests)]
    IN  IF latest.state = "resolved" THEN CalculateLoanResponse(latest.payload)
        ELSE NoResult

(***************************************************************************)
(* C22  In the App component an input change within the 250 ms cancels the *)
(* pending debounced request, and once the inputs are at rest and every    *)
(* issued calculateLoan call has completed, the displayed result is the    *)
(* response to the most recently issued call and isLoading is false.       *)
(* Violated: triggerCalculation neither orders nor aborts its calls, so    *)
(* the response to an earlier payload that arrives last is displayed.      *)
(***************************************************************************)
C22_LatestResponseDisplayed ==
    /\ debounce.set => debounce.payload = CurrentPayload
    /\ Quiescent => uiResult = LatestOutcome /\ ~isLoading

\* the parts of C22 that the component does keep: a pending timeout is always
\* the one of the inputs on screen, and isLoading is false at rest
C22_PendingIsCurrentAndLoadingEnds ==
    /\ debounce.set => debounce.payload = CurrentPayload
    /\ Quiescent => ~isLoading

\* two calls were issued for different payloads and both have resolved
C22_TwoCallsResolved ==
    /\ Quiescent
    /\ Len(requests) = 2
    /\ requests[1].payload # requests[2].payload
    /\ requests[1].state = "resolved" /\ requests[2].state = "resolved"

====
